---- MODULE Spec2Model ----
(***************************************************************************)
(* CareCompass front end: the resilient API client of                      *)
(* frontend/lib/robust-api.ts (APIClient.request, requestWithTimeout,      *)
(* the HTTP verbs and healthCheck), modelled as one call at a time on the  *)
(* single-threaded event loop, and the two local stores (SavingsProvider   *)
(* of contexts/SavingsContext.tsx, FamilyProvider of FamilyContext.tsx)    *)
(* with their localStorage keys.                                           *)
(***************************************************************************)
EXTENDS Integers, Sequences, FiniteSets, TLC

(* ---------------------------- bounds ----------------------------------- *)
\* largest explicit `retries` option a caller passes
MaxRetries == 2
\* largest explicit `retryDelay` option a caller passes (ms)
MaxRetryDelay == 2
\* largest explicit `timeout` option a caller passes (ms)
MaxTimeout == 2

(* ------------------------- program constants --------------------------- *)
\* an option that the caller left out (`undefined`)
Undef == -1
DefaultTimeout == 30000
DefaultRetries == 3
DefaultRetryDelay == 1000
HealthCheckTimeout == 5000
HealthCheckRetriesMut == DefaultRetries
HealthCheckRetries == 1

\* HTTP statuses a backend answers with; response.ok is 200..299
Statuses == {200, 400, 401, 403, 404, 422, 429, 500, 503}
ResponseOk(s) == s >= 200 /\ s <= 299

\* the verbs of the client and the method each one sets
Verbs == {"get", "post", "put", "delete", "upload"}
MethodOf(v) ==
  CASE v = "get" -> "GET"
    [] v = "post" -> "POST"
    [] v = "put" -> "PUT"
    [] v = "delete" -> "DELETE"
    [] v = "upload" -> "POST"

\* the body each verb puts into the options: post and put stringify their
\* data, upload passes its FormData
BodyOf(v) ==
  CASE v = "get" -> "none"
    [] v = "post" -> "json"
    [] v = "put" -> "json"
    [] v = "delete" -> "none"
    [] v = "upload" -> "formData"

\* options.headers as the caller gives it: absent, or an object that sets
\* a Content-Type of its own
NoHeaders == "absent"
EmptyHeaders == "empty"
CallerHeaders == {NoHeaders, "text/plain"}

\* options.headers as the verb hands it to request(): upload replaces it
\* by {}, the other verbs spread the caller's options unchanged
HeadersOf(v, hOpt) == IF v = "upload" THEN EmptyHeaders ELSE hOpt

\* the Content-Type of { 'Content-Type': 'application/json',
\* ...options.headers }, the headers requestWithTimeout() gives to fetch
FetchContentType(h) ==
  IF h \in {NoHeaders, EmptyHeaders} THEN "application/json" ELSE h

(* ------------------------------ errors --------------------------------- *)
\* what a promise settles with: a value, an APIError, or a raw exception
NoOutcome == [kind |-> "none", status |-> Undef]
OkOutcome == [kind |-> "ok", status |-> 200]
APIError(s) == [kind |-> "APIError", status |-> s]
RawError(k) == [kind |-> k, status |-> Undef]

\* exceptions the awaited fetch rejects with, other than the abort
FetchRejections == {"TypeError", "Error"}
\* exceptions reading the body of an OK response rejects with
BodyRejections == {"SyntaxError", "TypeError"}

\* catch block of requestWithTimeout: every caught error becomes an APIError
NormalizeErrorMut(e) ==
  IF e.kind = "APIError" THEN e
  ELSE IF e.kind = "AbortError" THEN APIError(500)
  ELSE IF e.kind = "TypeError" THEN APIError(0)
  ELSE APIError(500)
NormalizeError(e) ==
  IF e.kind = "APIError" THEN e
  ELSE IF e.kind = "AbortError" THEN APIError(408)
  ELSE IF e.kind = "TypeError" THEN APIError(0)
  ELSE APIError(500)

\* options.timeout || this.defaultTimeout
EffTimeout(opt) == IF opt = Undef \/ opt = 0 THEN DefaultTimeout ELSE opt
\* options.retries ?? this.defaultRetries
EffRetries(opt) == IF opt = Undef THEN DefaultRetries ELSE opt
\* options.retryDelay ?? 1000
EffRetryDelay(opt) == IF opt = Undef THEN DefaultRetryDelay ELSE opt

RECURSIVE Pow2(_)
Pow2(n) == IF n = 0 THEN 1 ELSE 2 * Pow2(n - 1)

\* retryDelay * Math.pow(2, attempt)
BackoffDelayMut(d, k) == d * (k + 1)
BackoffDelay(d, k) == d * Pow2(k)

\* the statuses request() never retries
NonRetryableMut(e) ==
  e.kind = "APIError" /\ e.status \in {401, 403, 404, 422, 429}
NonRetryable(e) ==
  e.kind = "APIError" /\
    (e.status < 500 \/ e.status \in {401, 403, 404, 422, 429})

\* `attempt === retries`
LastAttemptMut(a, r) == a + 1 >= r
LastAttempt(a, r) == a = r

\* the error request() throws once the attempts are exhausted
ExhaustedErrorMut(es, e) == es[1]
ExhaustedError(es, e) == e

\* healthCheck: true after the awaited get, false from the catch
HealthCheckResultMut(o) == IF o.kind = "ok" THEN "true" ELSE "threw"
HealthCheckResult(o) == IF o.kind = "ok" THEN "true" ELSE "false"

(* --------------------------- store values ------------------------------ *)
\* number of store operations a session performs after the mount
MaxOps == 3
\* milliseconds the clock may advance during the session
ClockTicks == 1
\* length of the collections the derived views are called on
MaxEvents == 3
\* Date.now() when the session starts; ids persisted earlier are older
SessionStart == 3

\* bits of the significand of a number (53 in an IEEE double)
SignificandBits == 7

\* JavaScript values held in state or produced by JSON.parse
JUndef == [t |-> "undefined"]
JNull == [t |-> "null"]
JNum(n) == [t |-> "number", v |-> n]
JStr(x) == [t |-> "string", v |-> x]
JArr(q) == [t |-> "array", v |-> q]
JObj(f) == [t |-> "object", v |-> f]

\* a property of an entity that is present with the value undefined
Undefined == "undefined"

\* truthiness, Array.isArray, and a property read of a parsed value
Truthy(x) ==
  CASE x.t \in {"undefined", "null"} -> FALSE
    [] x.t = "number" -> x.v # 0
    [] x.t = "string" -> x.v # ""
    [] OTHER -> TRUE
IsArray(x) == x.t = "array"
\* reading a property of null or undefined throws a TypeError
ReadThrows(x) == x.t \in {"undefined", "null"}
Prop(x, name) ==
  IF x.t = "object" /\ name \in DOMAIN x.v THEN x.v[name] ELSE JUndef

\* strings: a JSON text (by the value it denotes), a text that is not
\* JSON, and the null that getItem returns for a missing key
NoItem == [k |-> "null"]
Garbage == [k |-> "garbage"]
JsonText(x) == [k |-> "json", v |-> x]

\* JSON.stringify leaves out the properties whose value is undefined
DropUndefined(e) ==
  IF "dateOfBirth" \in DOMAIN e /\ e["dateOfBirth"] = Undefined
    THEN [f \in (DOMAIN e) \ {"dateOfBirth"} |-> e[f]]
    ELSE e
RECURSIVE Serialize(_)
Serialize(x) ==
  CASE x.t = "array" -> JArr([i \in 1 .. Len(x.v) |-> DropUndefined(x.v[i])])
    [] x.t = "object" ->
         JObj([f \in {g \in DOMAIN x.v : x.v[g].t # "undefined"} |->
                 Serialize(x.v[f])])
    [] OTHER -> x
JSONstringify(x) == JsonText(Serialize(x))
\* JSON.parse throws a SyntaxError unless the text is JSON
ParseThrows(text) == text.k # "json"
JSONparse(text) == text.v

\* numbers: amounts are counted in the smallest unit the model tells apart;
\* the result of an addition is rounded to SignificandBits significant bits,
\* ties to even
RECURSIVE Ulp(_, _)
Ulp(n, u) == IF n < Pow2(SignificandBits) * u THEN u ELSE Ulp(n, 2 * u)
RoundMagnitude(n) ==
  LET u == Ulp(n, 1)
      q == n \div u
      r == n % u
  IN IF 2 * r < u \/ (2 * r = u /\ q % 2 = 0) THEN q * u ELSE (q + 1) * u
RoundNumber(n) == IF n < 0 THEN 0 - RoundMagnitude(0 - n) ELSE RoundMagnitude(n)
\* a + b
Plus(a, b) == RoundNumber(a + b)

\* { ...entity, ...data }
Merge(e, data) ==
  [f \in (DOMAIN e) \cup (DOMAIN data) |->
     IF f \in DOMAIN data THEN data[f] ELSE e[f]]

\* prev.map(x => x.id === id ? { ...x, ...data } : x)
UpdateByIdMut(q, id, data) == [i \in 1 .. Len(q) |-> Merge(q[i], data)]
UpdateById(q, id, data) ==
  [i \in 1 .. Len(q) |-> IF q[i].id = id THEN Merge(q[i], data) ELSE q[i]]

\* prev.filter(x => x.id !== id)
RECURSIVE RemoveById(_, _)
RemoveById(q, id) ==
  IF q = <<>> THEN <<>>
  ELSE IF Head(q).id = id THEN RemoveById(Tail(q), id)
  ELSE <<Head(q)>> \o RemoveById(Tail(q), id)

\* Date.now().toString()
NewId(t) == ToString(t)

\* the entity sets of the data model
Categories ==
  {"billing_error", "appeal_won", "network_savings", "rx_savings",
   "denial_prevented"}
Relationships == {"self", "spouse", "child", "parent", "other"}
MemberTypes == {"primary", "dependent"}

\* SavingsEvent records: persisted by an earlier session or carried by an
\* import file
E1 == [id |-> "1", date |-> 1, category |-> "billing_error", amountSaved |-> 150]
E2 == [id |-> "2", date |-> 2, category |-> "appeal_won", amountSaved |-> 50]
EDupId == [id |-> "1", date |-> 2, category |-> "appeal_won", amountSaved |-> 50]
EBad == [id |-> "2", date |-> 2, category |-> "bogus", amountSaved |-> -5]

\* what localStorage may hold under 'medfin-savings' when the session starts
SavingsPersisted ==
  <<NoItem, Garbage, JsonText(JNull), JsonText(JObj(<<>>)),
    JsonText(JArr(<<>>)), JsonText(JArr(<<E1, E2>>))>>

\* the object written by exportSavingsData
SavingsExportMut(q, t) ==
  JObj([events |-> q, exportDate |-> JStr(ToString(t)),
        version |-> JStr("1.0")])
SavingsExport(q, t) ==
  JObj([savingsEvents |-> q, exportDate |-> JStr(ToString(t)),
        version |-> JStr("1.0")])

\* strings handed to importSavingsData
SavingsPayloads ==
  <<Garbage, JsonText(JNull), JsonText(JObj(<<>>)),
    JsonText(JObj([savingsEvents |-> JNum(5)])),
    JsonText(SavingsExport(JArr(<<>>), 1)),
    JsonText(SavingsExport(JArr(<<E1, E2>>), 2)),
    JsonText(SavingsExport(JArr(<<E1, EDupId>>), 2)),
    JsonText(SavingsExport(JArr(<<EBad>>), 2))>>

\* SavingsEvent records of the collections the derived views are called on
V3 == [id |-> "3", date |-> 3, category |-> "appeal_won", amountSaved |-> 1]
V4 == [id |-> "4", date |-> 3, category |-> "billing_error",
       amountSaved |-> Pow2(SignificandBits)]
V5 == [id |-> "5", date |-> 4, category |-> "billing_error", amountSaved |-> 1]
ViewEvents == {E1, E2, V3, V4, V5}

\* PolicyData, as far as the store reads it, and PolicyAssignment records
Policy500 == [annual_deductible_individual |-> 500, policy_strength_score |-> 7]
MainPolicy ==
  [policyId |-> "main", policyData |-> Policy500, memberType |-> "primary",
   deductibleMet |-> 0, outOfPocketMet |-> 0]
DentalPolicy ==
  [policyId |-> "dental", policyData |-> Policy500, memberType |-> "dependent",
   deductibleMet |-> 450, outOfPocketMet |-> 450]
BadPolicy ==
  [policyId |-> "main", policyData |-> Policy500, memberType |-> "bogus",
   deductibleMet |-> -1, outOfPocketMet |-> -1]

\* FamilyMember records: persisted by an earlier session or carried by an
\* import file
M1 == [id |-> "1", name |-> "Ann", relationship |-> "self",
       dateOfBirth |-> "1980-01-01", policies |-> <<MainPolicy>>]
M2 == [id |-> "2", name |-> "Bob", relationship |-> "child",
       policies |-> <<DentalPolicy>>]
MDupId == [id |-> "1", name |-> "Bob", relationship |-> "child",
           policies |-> <<>>]
MBad == [id |-> "2", name |-> "Eve", relationship |-> "bogus",
         policies |-> <<BadPolicy>>]

\* FamilyMember records of the collections the derived views are called on;
\* the amounts of a policy are counted in hundredths, so that the number 1
\* is One
One == 100
Full500 ==
  [policyId |-> "main", policyData |-> Policy500, memberType |-> "primary",
   deductibleMet |-> 500, outOfPocketMet |-> 500]
Edge400 ==
  [policyId |-> "vision", policyData |-> Policy500, memberType |-> "primary",
   deductibleMet |-> 400, outOfPocketMet |-> 400]
Low399 ==
  [policyId |-> "rx", policyData |-> Policy500, memberType |-> "primary",
   deductibleMet |-> 399, outOfPocketMet |-> 399]
NoDeductible ==
  [policyId |-> "main",
   policyData |-> [annual_deductible_individual |-> 0,
                   policy_strength_score |-> 0],
   memberType |-> "primary", deductibleMet |-> 90, outOfPocketMet |-> 90]
M3 == [id |-> "3", name |-> "Cat", relationship |-> "spouse",
       policies |-> <<Full500, Edge400, Low399>>]
M4 == [id |-> "4", name |-> "Dan", relationship |-> "parent",
       policies |-> <<NoDeductible>>]
ViewMembers == {M1, M2, M3, M4}

\* the days on which the views are called: month (0 = January), day, and
\* the number of days of the month that follows
Dates ==
  {[month |-> 5, day |-> 15, nextLength |-> 31],
   [month |-> 11, day |-> 15, nextLength |-> 31],
   [month |-> 0, day |-> 31, nextLength |-> 28],
   [month |-> 0, day |-> 15, nextLength |-> 28]}

\* what localStorage may hold under 'medfin-family' when the session starts
FamilyPersisted ==
  <<NoItem, Garbage, JsonText(JNull), JsonText(JObj(<<>>)),
    JsonText(JObj([familyMembers |-> JNum(5)])),
    JsonText(JObj([familyMembers |-> JArr(<<>>)])),
    JsonText(JObj([familyMembers |-> JArr(<<M1, M2>>)]))>>

\* the object written by exportFamilyData
FamilyExport(q, t) ==
  JObj([familyMembers |-> q, exportDate |-> JStr(ToString(t)),
        version |-> JStr("1.0")])

\* strings handed to importFamilyData
FamilyPayloads ==
  <<Garbage, JsonText(JNull), JsonText(JObj(<<>>)),
    JsonText(JObj([familyMembers |-> JNum(5)])),
    JsonText(FamilyExport(JArr(<<>>), 1)),
    JsonText(FamilyExport(JArr(<<M1, M2>>), 2)),
    JsonText(FamilyExport(JArr(<<M1, MDupId>>), 2)),
    JsonText(FamilyExport(JArr(<<MBad>>), 2))>>

\* arguments of addMember (FamilyDashboard.handleAddMember passes
\* dateOfBirth: undefined for an empty date), updateMember,
\* addPolicyToMember and updateMemberPolicy
FamilyAdds ==
  {[name |-> "Cat", relationship |-> "child", dateOfBirth |-> Undefined,
    policies |-> <<MainPolicy>>],
   [name |-> "Dan", relationship |-> "spouse", dateOfBirth |-> "2010-05-01",
    policies |-> <<MainPolicy>>]}
FamilyPartials ==
  {[name |-> "Eve"], [id |-> "1", relationship |-> "bogus"]}
PolicyPartials ==
  {[deductibleMet |-> 450], [deductibleMet |-> -1, memberType |-> "bogus"]}
PolicyIdPool == {"main", "none"}

\* arguments of addSavingsEvent and updateSavingsEvent
SavingsAdds ==
  {[category |-> "billing_error", amountSaved |-> 150],
   [category |-> "appeal_won", amountSaved |-> 50]}
SavingsPartials ==
  {[amountSaved |-> 75], [amountSaved |-> -5],
   [id |-> "1", category |-> "bogus"]}

\* ids are pairwise distinct
UniqueIds(q) ==
  \A i, j \in 1 .. Len(q) : q[i].id = q[j].id => i = j

\* ids passed to update and remove: the ids in use and one that is not
IdsOf(q) == {q[i].id : i \in 1 .. Len(q)}
IdPool(q) == IdsOf(q) \cup {"none"}

\* no state update queued
NoUpdate == [t |-> "none"]

\* no derived view called yet, no derived value computed
NoView == [fn |-> "none"]

\* record of the last store operation
NoOp ==
  [op |-> "none", id |-> "", policyId |-> "", data |-> <<>>,
   payload |-> NoItem, error |-> ""]

(* ------------------------------- state --------------------------------- *)
VARIABLES
  pc,          \* "idle", "fetching", "errbody", "body", "sleeping", "done"
  caller,      \* "none", "request" (a verb called directly), "healthCheck"
  method,      \* the method the verb put into the options
  body,        \* the body the verb put into the options
  contentType, \* the Content-Type header of the init given to fetch
  retries,     \* const retries of request()
  retryDelay,  \* const retryDelay of request()
  timeout,     \* const timeout of requestWithTimeout()
  attempt,     \* loop variable of request()
  attempts,    \* number of calls of fetch so far
  timerArmed,  \* the setTimeout of the current attempt is armed
  aborted,     \* controller.abort() was called for the current attempt
  netPending,  \* the underlying request/response of the attempt is open
  elapsed,     \* ms since the current attempt started
  respStatus,  \* status of the response whose body is being read
  lastError,   \* let lastError of request()
  errs,        \* what each settled failed attempt rejected with
  delays,      \* the argument of every sleep() so far
  result,      \* what the promise of request() settled with
  hcResult     \* what healthCheck() settled with: "none","true","false","threw"

VARIABLES
  provider,       \* the provider this behaviour mounts: "none", "savings", "family"
  phase,          \* "unmounted", "loadRan", "saveRan", "ready", "crashed"
  pending,        \* state update queued by the load effect, not yet rendered
  savingsEvents,  \* useState of SavingsProvider
  familyMembers,  \* useState of FamilyProvider
  savingsStored,  \* localStorage item 'medfin-savings'
  familyStored,   \* localStorage item 'medfin-family'
  now,            \* Date.now()
  storage,        \* localStorage: "ok", "full" (setItem throws), "blocked" (every access throws)
  exported,       \* string returned by the last export, while it is in use
  exportedFrom,   \* the collection that export serialized
  rt,             \* progress of export, clear, import: "none", "exported", "cleared", "imported"
  ops,            \* store operations performed so far
  loadedItem,     \* what the load effect got from getItem
  lastOp          \* the last store operation and its arguments

VARIABLES
  derived,        \* totalSavings, savingsByCategory, ... of the last render
  view            \* what the last call of a derived view returned

httpVars == <<pc, caller, method, body, contentType, retries, retryDelay, timeout,
              attempt, attempts,
              timerArmed, aborted, netPending, elapsed, respStatus, lastError,
              errs, delays, result, hcResult>>

storeVars == <<provider, phase, pending, savingsEvents, familyMembers,
               savingsStored, familyStored, now, storage, exported,
               exportedFrom, rt, ops, loadedItem, lastOp>>

viewVars == <<derived, view>>

vars == <<httpVars, storeVars, viewVars>>

\* instants at which the model looks at the clock of an attempt: the
\* deadline of its timer and the instant after it
TimePoints == {timeout, timeout + 1}

HttpInit ==
  /\ pc = "idle"
  /\ caller = "none"
  /\ method = "none"
  /\ body = "none"
  /\ contentType = "none"
  /\ retries = 0
  /\ retryDelay = 0
  /\ timeout = 0
  /\ attempt = 0
  /\ attempts = 0
  /\ timerArmed = FALSE
  /\ aborted = FALSE
  /\ netPending = FALSE
  /\ elapsed = 0
  /\ respStatus = 0
  /\ lastError = NoOutcome
  /\ errs = <<>>
  /\ delays = <<>>
  /\ result = NoOutcome
  /\ hcResult = "none"

\* no provider mounted, nothing persisted
StoreIdle ==
  /\ phase = "unmounted"
  /\ pending = NoUpdate
  /\ savingsEvents = JArr(<<>>)
  /\ familyMembers = JArr(<<>>)
  /\ now = SessionStart
  /\ exported = NoItem
  /\ exportedFrom = JArr(<<>>)
  /\ rt = "none"
  /\ ops = 0
  /\ loadedItem = NoItem
  /\ lastOp = NoOp
  /\ derived = NoView
  /\ view = NoView

Init ==
  /\ HttpInit
  /\ StoreIdle
  /\ provider = "none"
  /\ storage = "ok"
  /\ savingsStored = NoItem
  /\ familyStored = NoItem

(* ------------------------------ actions -------------------------------- *)
\* first lines of requestWithTimeout: arm the timer, call fetch
BeginAttempt ==
  /\ pc' = "fetching"
  /\ attempts' = attempts + 1
  /\ timerArmed' = TRUE
  /\ aborted' = FALSE
  /\ netPending' = TRUE
  /\ elapsed' = 0
  /\ respStatus' = 0

\* request() called through a verb: read the options, enter the loop
CallRequest(verb, hOpt, rOpt, dOpt, tOpt, who) ==
  /\ pc = "idle"
  /\ caller' = who
  /\ method' = MethodOf(verb)
  /\ body' = BodyOf(verb)
  /\ contentType' = FetchContentType(HeadersOf(verb, hOpt))
  /\ retries' = EffRetries(rOpt)
  /\ retryDelay' = EffRetryDelay(dOpt)
  /\ timeout' = EffTimeout(tOpt)
  /\ attempt' = 0
  /\ BeginAttempt
  /\ UNCHANGED <<storeVars, viewVars>>
  /\ UNCHANGED <<lastError, errs, delays, result, hcResult>>

StartRequest ==
  \E verb \in Verbs,
     hOpt \in CallerHeaders,
     rOpt \in {Undef} \cup (0 .. MaxRetries),
     dOpt \in {Undef} \cup (0 .. MaxRetryDelay),
     tOpt \in {Undef} \cup (0 .. MaxTimeout) :
    CallRequest(verb, hOpt, rOpt, dOpt, tOpt, "request")

\* healthCheck(): this.get('/health', { timeout: 5000, retries: 1 })
StartHealthCheck ==
  CallRequest("get", NoHeaders, HealthCheckRetries, Undef, HealthCheckTimeout, "healthCheck")

\* request() settles; a healthCheck() awaiting it settles in turn
Settle(o) ==
  /\ pc' = "done"
  /\ result' = o
  /\ hcResult' = IF caller = "healthCheck" THEN HealthCheckResult(o) ELSE hcResult

\* catch block of request() for the error e of the current attempt
HandleError(e) ==
  /\ lastError' = e
  /\ errs' = Append(errs, e)
  /\ timerArmed' = FALSE
  /\ netPending' = FALSE
  /\ IF NonRetryable(e)
       THEN Settle(e) /\ UNCHANGED delays
       ELSE IF LastAttempt(attempt, retries)
         THEN Settle(ExhaustedError(Append(errs, e), e)) /\ UNCHANGED delays
         ELSE /\ pc' = "sleeping"
              /\ delays' = Append(delays, BackoffDelay(retryDelay, attempt))
              /\ UNCHANGED <<result, hcResult>>
  /\ UNCHANGED <<storeVars, viewVars>>
  /\ UNCHANGED <<caller, method, body, contentType, retries, retryDelay, timeout, attempt,
                 attempts, elapsed, respStatus>>

\* time passes while an attempt is open; an armed timer fires at `timeout`
Tick ==
  /\ pc \in {"fetching", "errbody", "body"}
  /\ \E t \in TimePoints :
       /\ t > elapsed
       /\ timerArmed => t <= timeout
       /\ elapsed' = t
  /\ UNCHANGED <<storeVars, viewVars>>
  /\ UNCHANGED <<pc, caller, method, body, contentType, retries, retryDelay, timeout, attempt,
                 attempts, timerArmed, aborted, netPending, respStatus,
                 lastError, errs, delays, result, hcResult>>

\* the timer callback: controller.abort(); fetch rejects with AbortError
TimerFires ==
  /\ pc = "fetching"
  /\ timerArmed
  /\ elapsed >= timeout
  /\ aborted' = TRUE
  /\ HandleError(NormalizeError(RawError("AbortError")))

\* fetch resolves with a response: clearTimeout, then read the body
FetchResponds ==
  /\ pc = "fetching"
  /\ \E s \in Statuses :
       /\ respStatus' = s
       /\ pc' = IF ResponseOk(s) THEN "body" ELSE "errbody"
  /\ timerArmed' = FALSE
  /\ UNCHANGED <<storeVars, viewVars>>
  /\ UNCHANGED <<caller, method, body, contentType, retries, retryDelay, timeout, attempt,
                 attempts, aborted, netPending, elapsed, lastError, errs,
                 delays, result, hcResult>>

\* fetch rejects by itself (network failure, or anything else thrown)
FetchRejects ==
  /\ pc = "fetching"
  /\ \E k \in FetchRejections : HandleError(NormalizeError(RawError(k)))
  /\ UNCHANGED aborted

\* non-OK response: errorData read (or {}), APIError(status) thrown and
\* rethrown by the catch block
ErrorBodyRead ==
  /\ pc = "errbody"
  /\ HandleError(NormalizeError(APIError(respStatus)))
  /\ UNCHANGED aborted

\* OK response: the promise of response.json()/text() fulfils
BodyRead ==
  /\ pc = "body"
  /\ Settle(OkOutcome)
  /\ netPending' = FALSE
  /\ UNCHANGED <<storeVars, viewVars>>
  /\ UNCHANGED <<caller, method, body, contentType, retries, retryDelay, timeout, attempt,
                 attempts, timerArmed, aborted, elapsed, respStatus,
                 lastError, errs, delays>>

\* OK response: the promise of response.json()/text() rejects; it was
\* returned, not awaited, so the catch block of requestWithTimeout is skipped
BodyFails ==
  /\ pc = "body"
  /\ \E k \in BodyRejections : HandleError(RawError(k))
  /\ UNCHANGED aborted

\* sleep(delay) is over: attempt++, next iteration
SleepDoneMut ==
  /\ pc \in {"sleeping", "fetching"}
  /\ attempt < retries
  /\ attempt' = attempt + 1
  /\ BeginAttempt
  /\ UNCHANGED <<storeVars, viewVars>>
  /\ UNCHANGED <<caller, method, body, contentType, retries, retryDelay, timeout, lastError,
                 errs, delays, result, hcResult>>
SleepDone ==
  /\ pc = "sleeping"
  /\ attempt' = attempt + 1
  /\ BeginAttempt
  /\ UNCHANGED <<storeVars, viewVars>>
  /\ UNCHANGED <<caller, method, body, contentType, retries, retryDelay, timeout, lastError,
                 errs, delays, result, hcResult>>

Next ==
  \/ StartRequest
  \/ StartHealthCheck
  \/ Tick
  \/ TimerFires
  \/ FetchResponds
  \/ FetchRejects
  \/ ErrorBodyRead
  \/ BodyRead
  \/ BodyFails
  \/ SleepDone

Spec == Init /\ [][Next]_vars

\* the environment request() relies on: a fetch that was issued responds,
\* rejects or is aborted by the timer of its attempt, and the timer of
\* sleep() fires. Nothing is assumed about the body of a response that has
\* arrived: its timer was cleared, and the stream may never end
FetchSettles == FetchResponds \/ FetchRejects \/ TimerFires
SpecLive ==
  /\ Init
  /\ [][Next]_vars
  /\ WF_vars(FetchSettles)
  /\ WF_vars(SleepDone)

(* --------------------------- Savings store ----------------------------- *)
\* localStorage.setItem inside try/catch: a throwing write is swallowed
WrittenMut(old, text) == old
Written(old, text) == IF storage = "ok" THEN text ELSE old

\* what the load effect of SavingsProvider passes to setSavingsEvents
SavingsLoaded(item) ==
  IF item.k = "null" \/ ParseThrows(item) THEN NoUpdate ELSE JSONparse(item)

\* load effect on mount; a throwing getItem is swallowed
SavingsLoad ==
  /\ provider = "savings"
  /\ phase = "unmounted"
  /\ pending' = IF storage = "blocked" THEN NoUpdate
                ELSE SavingsLoaded(savingsStored)
  /\ loadedItem' = IF storage = "blocked" THEN NoItem ELSE savingsStored
  /\ phase' = "loadRan"
  /\ UNCHANGED <<provider, savingsEvents, familyMembers, savingsStored,
                 familyStored, now, storage, exported, exportedFrom, rt, ops,
                 lastOp>>
  /\ UNCHANGED <<httpVars, viewVars>>

\* save effect on mount: it sees the state of the first render
SavingsMountSave ==
  /\ provider = "savings"
  /\ phase = "loadRan"
  /\ savingsStored' = Written(savingsStored, JSONstringify(savingsEvents))
  /\ phase' = IF pending.t = "none" THEN "ready" ELSE "saveRan"
  /\ UNCHANGED <<provider, pending, savingsEvents, familyMembers,
                 familyStored, now, storage, exported, exportedFrom, rt, ops,
                 loadedItem, lastOp>>
  /\ UNCHANGED <<httpVars, viewVars>>

\* the mount of a development build in strict mode: React runs the mount
\* effects a second time before the update of the first load is rendered.
\* The save effect writes the state of the first render, the second load
\* reads what it wrote, and of the updates queued the last one wins
SavingsStrictMount ==
  /\ provider = "savings"
  /\ phase = "loadRan"
  /\ LET written == Written(savingsStored, JSONstringify(savingsEvents))
         item == IF storage = "blocked" THEN NoItem ELSE written
         again == SavingsLoaded(item)
     IN /\ savingsStored' = written
        /\ pending' = IF again.t = "none" THEN pending ELSE again
        /\ phase' = IF pending'.t = "none" THEN "ready" ELSE "saveRan"
  /\ UNCHANGED <<provider, savingsEvents, familyMembers, familyStored, now,
                 storage, exported, exportedFrom, rt, ops, loadedItem, lastOp>>
  /\ UNCHANGED <<httpVars, viewVars>>

\* render with the loaded state: totalSavings calls savingsEvents.reduce,
\* which throws unless the state is an array; then the save effect
SavingsRerender ==
  /\ provider = "savings"
  /\ phase = "saveRan"
  /\ savingsEvents' = pending
  /\ pending' = NoUpdate
  /\ IF IsArray(pending)
       THEN /\ phase' = "ready"
            /\ savingsStored' = Written(savingsStored, JSONstringify(pending))
       ELSE /\ phase' = "crashed"
            /\ UNCHANGED savingsStored
  /\ UNCHANGED <<provider, familyMembers, familyStored, now, storage,
                 exported, exportedFrom, rt, ops, loadedItem, lastOp>>
  /\ UNCHANGED <<httpVars, viewVars>>

SavingsReady == provider = "savings" /\ phase = "ready" /\ ops < MaxOps

\* setSavingsEvents(next), the render and the save effect that follow
SavingsCommitMut(next, op) ==
  /\ savingsEvents' = IF storage = "ok" THEN next ELSE savingsEvents
  /\ savingsStored' = Written(savingsStored, JSONstringify(next))
  /\ lastOp' = op
  /\ ops' = ops + 1
  /\ UNCHANGED <<provider, phase, pending, familyMembers, familyStored, now,
                 storage, loadedItem>>
  /\ UNCHANGED <<httpVars, viewVars>>
SavingsCommit(next, op) ==
  /\ savingsEvents' = next
  /\ savingsStored' = Written(savingsStored, JSONstringify(next))
  /\ lastOp' = op
  /\ ops' = ops + 1
  /\ UNCHANGED <<provider, phase, pending, familyMembers, familyStored, now,
                 storage, loadedItem>>
  /\ UNCHANGED <<httpVars, viewVars>>

\* an operation that leaves the state alone: no render, no save
SavingsNoCommit(op) ==
  /\ lastOp' = op
  /\ ops' = ops + 1
  /\ UNCHANGED <<provider, phase, pending, savingsEvents, familyMembers,
                 savingsStored, familyStored, now, storage, loadedItem>>
  /\ UNCHANGED <<httpVars, viewVars>>

\* an operation other than export, clear, import ends a round trip
RoundTripOver ==
  rt' = "none" /\ exported' = NoItem /\ exportedFrom' = JArr(<<>>)

AddSavingsEvent ==
  /\ SavingsReady
  /\ \E eventData \in SavingsAdds :
       LET newEvent == Merge(eventData, [id |-> NewId(now), date |-> now])
       IN SavingsCommit(JArr(Append(savingsEvents.v, newEvent)),
                        [NoOp EXCEPT !.op = "add", !.id = newEvent.id])
  /\ RoundTripOver

RemoveSavingsEvent ==
  /\ SavingsReady
  /\ \E id \in IdPool(savingsEvents.v) :
       SavingsCommit(JArr(RemoveById(savingsEvents.v, id)),
                     [NoOp EXCEPT !.op = "remove", !.id = id])
  /\ RoundTripOver

UpdateSavingsEvent ==
  /\ SavingsReady
  /\ \E id \in IdPool(savingsEvents.v), data \in SavingsPartials :
       SavingsCommit(JArr(UpdateById(savingsEvents.v, id, data)),
                     [NoOp EXCEPT !.op = "update", !.id = id, !.data = data])
  /\ RoundTripOver

ExportSavingsData ==
  /\ SavingsReady
  /\ exported' = JSONstringify(SavingsExport(savingsEvents, now))
  /\ exportedFrom' = savingsEvents
  /\ rt' = "exported"
  /\ SavingsNoCommit([NoOp EXCEPT !.op = "export"])

\* message of the error thrown by the catch of importSavingsData
SavingsImportErrorMut == "Invalid family data format"
SavingsImportError == "Invalid savings data format"

\* importSavingsData: what throws, and what reaches setSavingsEvents
SavingsImportThrows(data) ==
  ParseThrows(data) \/ ReadThrows(JSONparse(data))
SavingsImportAccepts(data) ==
  /\ Truthy(Prop(JSONparse(data), "savingsEvents"))
  /\ IsArray(Prop(JSONparse(data), "savingsEvents"))

ImportSavingsData ==
  /\ SavingsReady
  /\ \E i \in 0 .. Len(SavingsPayloads) :
       LET data == IF i = 0 THEN exported ELSE SavingsPayloads[i]
           op == [NoOp EXCEPT !.op = "import", !.payload = data]
       IN /\ data.k # "null"
          /\ rt' = IF rt = "cleared" /\ i = 0 THEN "imported" ELSE "none"
          /\ IF SavingsImportThrows(data)
               THEN SavingsNoCommit(
                      [op EXCEPT !.error = SavingsImportError])
               ELSE IF SavingsImportAccepts(data)
                 THEN SavingsCommit(Prop(JSONparse(data), "savingsEvents"), op)
                 ELSE SavingsNoCommit(op)
  /\ exported' = IF rt' = "imported" THEN exported ELSE NoItem
  /\ exportedFrom' = IF rt' = "imported" THEN exportedFrom ELSE JArr(<<>>)

ClearAllSavings ==
  /\ SavingsReady
  /\ SavingsCommit(JArr(<<>>), [NoOp EXCEPT !.op = "clear"])
  /\ rt' = IF rt = "exported" THEN "cleared" ELSE "none"
  /\ exported' = IF rt = "exported" THEN exported ELSE NoItem
  /\ exportedFrom' = IF rt = "exported" THEN exportedFrom ELSE JArr(<<>>)

\* a millisecond passes
ClockAdvance ==
  /\ phase = "ready"
  /\ ops < MaxOps
  /\ now < SessionStart + ClockTicks
  /\ now' = now + 1
  /\ UNCHANGED <<provider, phase, pending, savingsEvents, familyMembers,
                 savingsStored, familyStored, storage, exported,
                 exportedFrom, rt, ops, loadedItem, lastOp>>
  /\ UNCHANGED <<httpVars, viewVars>>

SavingsNext ==
  \/ SavingsLoad
  \/ SavingsMountSave
  \/ SavingsStrictMount
  \/ SavingsRerender
  \/ AddSavingsEvent
  \/ RemoveSavingsEvent
  \/ UpdateSavingsEvent
  \/ ExportSavingsData
  \/ ImportSavingsData
  \/ ClearAllSavings

(* ---------------------------- Family store ----------------------------- *)
\* JSON.stringify({ familyMembers })
FamilyItem(coll) == JSONstringify(JObj([familyMembers |-> coll]))

\* what the load effect of FamilyProvider passes to setFamilyMembers:
\* parsed.familyMembers || []
FamilyLoaded(item) ==
  IF item.k = "null" \/ ParseThrows(item) \/ ReadThrows(JSONparse(item))
    THEN NoUpdate
    ELSE IF Truthy(Prop(JSONparse(item), "familyMembers"))
      THEN Prop(JSONparse(item), "familyMembers")
      ELSE JArr(<<>>)

\* load effect on mount; a throwing getItem is swallowed
FamilyLoad ==
  /\ provider = "family"
  /\ phase = "unmounted"
  /\ pending' = IF storage = "blocked" THEN NoUpdate
                ELSE FamilyLoaded(familyStored)
  /\ loadedItem' = IF storage = "blocked" THEN NoItem ELSE familyStored
  /\ phase' = "loadRan"
  /\ UNCHANGED <<provider, savingsEvents, familyMembers, savingsStored,
                 familyStored, now, storage, exported, exportedFrom, rt, ops,
                 lastOp>>
  /\ UNCHANGED <<httpVars, viewVars>>

\* save effect on mount: it sees the state of the first render
FamilyMountSave ==
  /\ provider = "family"
  /\ phase = "loadRan"
  /\ familyStored' = Written(familyStored, FamilyItem(familyMembers))
  /\ phase' = IF pending.t = "none" THEN "ready" ELSE "saveRan"
  /\ UNCHANGED <<provider, pending, savingsEvents, familyMembers,
                 savingsStored, now, storage, exported, exportedFrom, rt, ops,
                 loadedItem, lastOp>>
  /\ UNCHANGED <<httpVars, viewVars>>

\* the mount of a development build in strict mode, as SavingsStrictMount
FamilyStrictMount ==
  /\ provider = "family"
  /\ phase = "loadRan"
  /\ LET written == Written(familyStored, FamilyItem(familyMembers))
         item == IF storage = "blocked" THEN NoItem ELSE written
         again == FamilyLoaded(item)
     IN /\ familyStored' = written
        /\ pending' = IF again.t = "none" THEN pending ELSE again
        /\ phase' = IF pending'.t = "none" THEN "ready" ELSE "saveRan"
  /\ UNCHANGED <<provider, savingsEvents, familyMembers, savingsStored, now,
                 storage, exported, exportedFrom, rt, ops, loadedItem, lastOp>>
  /\ UNCHANGED <<httpVars, viewVars>>

\* render with the loaded state: the consumers call familyMembers.forEach
\* (getPendingActions in AIWorkspace) and familyMembers.reduce
\* (FamilyDashboard), which throw unless it is an array; then the save effect
FamilyRerender ==
  /\ provider = "family"
  /\ phase = "saveRan"
  /\ familyMembers' = pending
  /\ pending' = NoUpdate
  /\ IF IsArray(pending)
       THEN /\ phase' = "ready"
            /\ familyStored' = Written(familyStored, FamilyItem(pending))
       ELSE /\ phase' = "crashed"
            /\ UNCHANGED familyStored
  /\ UNCHANGED <<provider, savingsEvents, savingsStored, now, storage,
                 exported, exportedFrom, rt, ops, loadedItem, lastOp>>
  /\ UNCHANGED <<httpVars, viewVars>>

FamilyReady == provider = "family" /\ phase = "ready" /\ ops < MaxOps

\* setFamilyMembers(next), the render and the save effect that follow
FamilyCommit(next, op) ==
  /\ familyMembers' = next
  /\ familyStored' = Written(familyStored, FamilyItem(next))
  /\ lastOp' = op
  /\ ops' = ops + 1
  /\ UNCHANGED <<provider, phase, pending, savingsEvents, savingsStored, now,
                 storage, loadedItem>>
  /\ UNCHANGED <<httpVars, viewVars>>

\* an operation that leaves the state alone: no render, no save
FamilyNoCommit(op) ==
  /\ lastOp' = op
  /\ ops' = ops + 1
  /\ UNCHANGED <<provider, phase, pending, savingsEvents, familyMembers,
                 savingsStored, familyStored, now, storage, loadedItem>>
  /\ UNCHANGED <<httpVars, viewVars>>

AddMember ==
  /\ FamilyReady
  /\ \E memberData \in FamilyAdds :
       LET newMember == Merge(memberData, [id |-> NewId(now)])
       IN FamilyCommit(JArr(Append(familyMembers.v, newMember)),
                       [NoOp EXCEPT !.op = "add", !.id = newMember.id])
  /\ RoundTripOver

UpdateMember ==
  /\ FamilyReady
  /\ \E id \in IdPool(familyMembers.v), data \in FamilyPartials :
       FamilyCommit(JArr(UpdateById(familyMembers.v, id, data)),
                    [NoOp EXCEPT !.op = "update", !.id = id, !.data = data])
  /\ RoundTripOver

RemoveMember ==
  /\ FamilyReady
  /\ \E id \in IdPool(familyMembers.v) :
       FamilyCommit(JArr(RemoveById(familyMembers.v, id)),
                    [NoOp EXCEPT !.op = "remove", !.id = id])
  /\ RoundTripOver

\* policies.map(p => p.policyId === policyId ? { ...p, ...data } : p)
UpdatePolicyById(ps, policyId, data) ==
  [i \in 1 .. Len(ps) |->
     IF ps[i].policyId = policyId THEN Merge(ps[i], data) ELSE ps[i]]

\* policies.filter(p => p.policyId !== policyId)
RECURSIVE RemovePolicyById(_, _)
RemovePolicyById(ps, policyId) ==
  IF ps = <<>> THEN <<>>
  ELSE IF Head(ps).policyId = policyId THEN RemovePolicyById(Tail(ps), policyId)
  ELSE <<Head(ps)>> \o RemovePolicyById(Tail(ps), policyId)

\* prev.map(m => m.id === memberId ? { ...m, policies: ... } : m)
\* (ps[i] is what the inner expression gives for the policies of member i)
WithPolicies(q, memberId, ps) ==
  [i \in 1 .. Len(q) |->
     IF q[i].id = memberId THEN Merge(q[i], [policies |-> ps[i]]) ELSE q[i]]

AddPolicyToMember ==
  /\ FamilyReady
  /\ \E memberId \in IdPool(familyMembers.v) :
       LET q == familyMembers.v
           ps == [i \in 1 .. Len(q) |-> Append(q[i].policies, DentalPolicy)]
       IN FamilyCommit(JArr(WithPolicies(q, memberId, ps)),
                       [NoOp EXCEPT !.op = "addPolicy", !.id = memberId,
                                    !.policyId = DentalPolicy.policyId])
  /\ RoundTripOver

UpdateMemberPolicy ==
  /\ FamilyReady
  /\ \E memberId \in IdPool(familyMembers.v), policyId \in PolicyIdPool,
        data \in PolicyPartials :
       LET q == familyMembers.v
           ps == [i \in 1 .. Len(q) |->
                    UpdatePolicyById(q[i].policies, policyId, data)]
       IN FamilyCommit(JArr(WithPolicies(q, memberId, ps)),
                       [NoOp EXCEPT !.op = "updatePolicy", !.id = memberId,
                                    !.policyId = policyId, !.data = data])
  /\ RoundTripOver

RemovePolicyFromMember ==
  /\ FamilyReady
  /\ \E memberId \in IdPool(familyMembers.v), policyId \in PolicyIdPool :
       LET q == familyMembers.v
           ps == [i \in 1 .. Len(q) |->
                    RemovePolicyById(q[i].policies, policyId)]
       IN FamilyCommit(JArr(WithPolicies(q, memberId, ps)),
                       [NoOp EXCEPT !.op = "removePolicy", !.id = memberId,
                                    !.policyId = policyId])
  /\ RoundTripOver

ExportFamilyData ==
  /\ FamilyReady
  /\ exported' = JSONstringify(FamilyExport(familyMembers, now))
  /\ exportedFrom' = familyMembers
  /\ rt' = "exported"
  /\ FamilyNoCommit([NoOp EXCEPT !.op = "export"])

\* message of the error thrown by the catch of importFamilyData
FamilyImportError == "Invalid family data format"

\* importFamilyData: what throws, and what reaches setFamilyMembers
FamilyImportThrows(data) ==
  ParseThrows(data) \/ ReadThrows(JSONparse(data))
FamilyImportAccepts(data) ==
  /\ Truthy(Prop(JSONparse(data), "familyMembers"))
  /\ IsArray(Prop(JSONparse(data), "familyMembers"))

ImportFamilyData ==
  /\ FamilyReady
  /\ \E i \in 0 .. Len(FamilyPayloads) :
       LET data == IF i = 0 THEN exported ELSE FamilyPayloads[i]
           op == [NoOp EXCEPT !.op = "import", !.payload = data]
       IN /\ data.k # "null"
          /\ rt' = IF rt = "cleared" /\ i = 0 THEN "imported" ELSE "none"
          /\ IF FamilyImportThrows(data)
               THEN FamilyNoCommit(
                      [op EXCEPT !.error = FamilyImportError])
               ELSE IF FamilyImportAccepts(data)
                 THEN FamilyCommit(Prop(JSONparse(data), "familyMembers"), op)
                 ELSE FamilyNoCommit(op)
  /\ exported' = IF rt' = "imported" THEN exported ELSE NoItem
  /\ exportedFrom' = IF rt' = "imported" THEN exportedFrom ELSE JArr(<<>>)

ClearAllFamilyData ==
  /\ FamilyReady
  /\ FamilyCommit(JArr(<<>>), [NoOp EXCEPT !.op = "clear"])
  /\ rt' = IF rt = "exported" THEN "cleared" ELSE "none"
  /\ exported' = IF rt = "exported" THEN exported ELSE NoItem
  /\ exportedFrom' = IF rt = "exported" THEN exportedFrom ELSE JArr(<<>>)

FamilyNext ==
  \/ FamilyLoad
  \/ FamilyMountSave
  \/ FamilyStrictMount
  \/ FamilyRerender
  \/ AddMember
  \/ UpdateMember
  \/ RemoveMember
  \/ AddPolicyToMember
  \/ UpdateMemberPolicy
  \/ RemovePolicyFromMember
  \/ ExportFamilyData
  \/ ImportFamilyData
  \/ ClearAllFamilyData

\* a session that mounts one provider over what an earlier session left
StoreInit ==
  /\ HttpInit
  /\ StoreIdle
  /\ storage \in {"ok", "full", "blocked"}
  /\ \/ /\ provider = "savings"
        /\ \E i \in 1 .. Len(SavingsPersisted) :
             savingsStored = SavingsPersisted[i]
        /\ familyStored = NoItem
     \/ /\ provider = "family"
        /\ \E i \in 1 .. Len(FamilyPersisted) :
             familyStored = FamilyPersisted[i]
        /\ savingsStored = NoItem

StoreNext ==
  \/ SavingsNext
  \/ FamilyNext
  \/ ClockAdvance

SpecStore == StoreInit /\ [][StoreNext]_vars

(* ----------------------------- properties ------------------------------ *)
Pending == pc \in {"fetching", "errbody", "body"}
Failed == pc = "done" /\ result.kind # "ok"
IsClientError(e) == e.kind = "APIError" /\ e.status >= 400 /\ e.status <= 499
IsServerError(e) == e.kind = "APIError" /\ e.status >= 500
IsNetworkError(e) == e.kind = "APIError" /\ e.status = 0

TypeOK ==
  /\ pc \in {"idle", "fetching", "errbody", "body", "sleeping", "done"}
  /\ caller \in {"none", "request", "healthCheck"}
  /\ attempt \in 0 .. retries
  /\ attempts \in 0 .. (retries + 1)
  /\ timerArmed \in BOOLEAN /\ aborted \in BOOLEAN /\ netPending \in BOOLEAN
  /\ hcResult \in {"none", "true", "false", "threw"}

\* C1: an attempt that fails with a 4xx status (401, 403, 404, 422, 429 or
\* any other) is never followed by a wait or by another attempt: the call
\* is settled with that very error, and when it is the first attempt the
\* call has made exactly one attempt, whatever `retries` is.
C1_ClientErrorNotRetried ==
  \A i \in 1 .. Len(errs) :
    IsClientError(errs[i]) =>
      /\ i = Len(errs)
      /\ pc = "done"
      /\ result = errs[i]
      /\ attempts = i
      /\ Len(delays) = i - 1
      /\ (i = 1 => attempts = 1 /\ delays = <<>>)

C1_Witness ==
  /\ pc = "done"
  /\ retries = DefaultRetries
  /\ attempts = 1
  /\ errs = <<APIError(404)>>
  /\ result = APIError(404)

\* C2 (as claimed): a call in which every attempt failed with a network
\* error (APIError status 0) has made retries+1 attempts when it fails.
C2_NetworkErrorRetried ==
  (Failed /\ errs # <<>> /\ \A i \in 1 .. Len(errs) : IsNetworkError(errs[i]))
    => attempts = retries + 1

\* C3: a call in which every attempt failed with a server error
\* (status >= 500) has made retries+1 attempts when it fails, 4 by default.
C3_ServerErrorRetried ==
  (Failed /\ errs # <<>> /\ \A i \in 1 .. Len(errs) : IsServerError(errs[i]))
    => /\ attempts = retries + 1
       /\ Len(errs) = retries + 1

C3_Witness ==
  /\ Failed
  /\ retries = DefaultRetries
  /\ attempts = 4
  /\ errs = <<APIError(503), APIError(503), APIError(503), APIError(503)>>

\* the k-th wait (k from 0) is retryDelay * 2^k, there is one wait between
\* two consecutive attempts and none after the last one
DelaysFollowBackoff ==
  /\ \A k \in 1 .. Len(delays) : delays[k] = retryDelay * Pow2(k - 1)
  /\ Pending => Len(delays) = attempts - 1
  /\ pc = "sleeping" => Len(delays) = attempts
  /\ pc = "done" => Len(delays) = attempts - 1

\* C4 (as claimed): the waits follow retryDelay * 2^k and successive waits
\* are strictly increasing, with no wait after the final attempt.
C4_DelaysStrictlyIncreasing ==
  /\ DelaysFollowBackoff
  /\ \A k \in 1 .. (Len(delays) - 1) : delays[k] < delays[k + 1]

\* C4 (amended): the waits follow retryDelay * 2^k, with no wait after the
\* final attempt; successive waits are strictly increasing when
\* retryDelay > 0 and are all 0 when retryDelay = 0.
C4_DelaysBackoff ==
  /\ DelaysFollowBackoff
  /\ retryDelay > 0 => \A k \in 1 .. (Len(delays) - 1) : delays[k] < delays[k + 1]
  /\ retryDelay = 0 => \A k \in 1 .. Len(delays) : delays[k] = 0

C4_Witness ==
  /\ pc = "done"
  /\ retryDelay = DefaultRetryDelay
  /\ attempts = 4
  /\ delays = <<1000, 2000, 4000>>

\* C5: while fetch has not answered the timer stays armed and the attempt
\* is never open past `timeout`; when the timer fires the request is
\* aborted, is no longer open, and the call settles with APIError 408.
C5_TimeoutSettles408 ==
  /\ pc = "fetching" => timerArmed /\ netPending /\ elapsed <= timeout
  /\ aborted =>
       /\ pc = "done"
       /\ result = APIError(408)
       /\ ~netPending
       /\ ~timerArmed
       /\ elapsed = timeout

C5_Witness ==
  /\ aborted
  /\ pc = "done"
  /\ timeout = DefaultTimeout
  /\ elapsed = DefaultTimeout
  /\ result = APIError(408)

\* C6 (as claimed): an attempt that is still pending always has its
\* timeout timer armed, the phase that reads the body included.
C6_PendingAttemptHasTimer == Pending => timerArmed

\* C7 (as claimed): a call that fails always fails with an APIError.
C7_FailureIsAPIError == Failed => result.kind = "APIError"

\* C8: when the attempts are exhausted the call fails with the error of
\* the last attempt made.
C8_LastErrorPropagates ==
  (Failed /\ attempts = retries + 1) =>
    /\ Len(errs) = attempts
    /\ result = errs[attempts]
    /\ lastError = errs[attempts]

C8_Witness ==
  /\ Failed
  /\ retries = 2
  /\ attempts = 3
  /\ errs = <<APIError(500), APIError(503), RawError("SyntaxError")>>
  /\ result = RawError("SyntaxError")

\* C9: healthCheck never throws; once the GET has settled it has resolved
\* to a boolean, true exactly when the GET succeeded.
C9_HealthCheckBoolean ==
  /\ hcResult # "threw"
  /\ caller = "healthCheck" =>
       /\ pc = "done" => hcResult = (IF result.kind = "ok" THEN "true" ELSE "false")
       /\ pc # "done" => hcResult = "none"
  /\ caller # "healthCheck" => hcResult = "none"

C9_Witness ==
  /\ caller = "healthCheck"
  /\ pc = "done"
  /\ result = APIError(408)
  /\ hcResult = "false"

\* C10 (as claimed): a healthCheck that resolves false has made exactly
\* two attempts, as a GET with a 5000 ms timeout.
C10_HealthCheckTwoAttempts ==
  (caller = "healthCheck" /\ hcResult = "false") =>
    /\ method = "GET"
    /\ timeout = 5000
    /\ attempts = 2

\* C10 (amended): healthCheck is a GET with a 5000 ms timeout and
\* retries = 1: it never makes more than two attempts; when its first
\* attempt fails with a server error (status >= 500) exactly one further
\* attempt is made before it resolves false, and when its first attempt
\* fails with a 4xx status (the 408 of a timeout included) none is made.
C10_HealthCheckOneRetry ==
  caller = "healthCheck" =>
    /\ method = "GET"
    /\ timeout = 5000
    /\ retries = 1
    /\ attempts <= 2
    /\ (errs # <<>> /\ IsServerError(errs[1])) =>
         /\ pc = "sleeping" => attempts = 1
         /\ pc # "sleeping" => attempts = 2
         /\ hcResult = "false" => attempts = 2
    /\ (errs # <<>> /\ IsClientError(errs[1])) =>
         /\ hcResult = "false"
         /\ attempts = 1

C10_Witness ==
  /\ caller = "healthCheck"
  /\ hcResult = "false"
  /\ attempts = 2
  /\ errs = <<APIError(503), APIError(500)>>

(* ---------------------------- derived views -------------------------- *)
\* savingsEvents.reduce((sum, event) => sum + event.amountSaved, 0)
RECURSIVE TotalSavings(_)
TotalSavings(q) ==
  IF q = <<>> THEN 0
  ELSE Plus(TotalSavings(SubSeq(q, 1, Len(q) - 1)), q[Len(q)].amountSaved)

\* savingsEvents.reduce((acc, event) => {
\*   acc[event.category] = (acc[event.category] || 0) + event.amountSaved; ...
\* Math.round(totalSavings / 100)
EstimatedTimeSaved(total) == (total + 50) \div 100

AccumulateMut(acc, event) ==
  [c \in (DOMAIN acc) \cup {event.category} |->
     IF c = event.category THEN event.amountSaved ELSE acc[c]]
Accumulate(acc, event) ==
  [c \in (DOMAIN acc) \cup {event.category} |->
     IF c = event.category
       THEN Plus(IF c \in DOMAIN acc THEN acc[c] ELSE 0, event.amountSaved)
       ELSE acc[c]]
RECURSIVE SavingsByCategory(_)
SavingsByCategory(q) ==
  IF q = <<>> THEN [c \in {} |-> 0]
  ELSE Accumulate(SavingsByCategory(SubSeq(q, 1, Len(q) - 1)), q[Len(q)])

\* the derived values a render of SavingsProvider computes
Derived(q) ==
  [totalSavings |-> TotalSavings(q),
   savingsByCategory |-> SavingsByCategory(q),
   estimatedTimeSaved |-> EstimatedTimeSaved(TotalSavings(q))]

\* Array.prototype.sort with (a, b) => time(b.date) - time(a.date): stable,
\* latest first
RECURSIVE InsertByDate(_, _)
InsertByDate(sorted, e) ==
  IF sorted = <<>> THEN <<e>>
  ELSE IF Head(sorted).date >= e.date
    THEN <<Head(sorted)>> \o InsertByDate(Tail(sorted), e)
    ELSE <<e>> \o sorted
RECURSIVE SortByDateDesc(_)
SortByDateDesc(q) ==
  IF q = <<>> THEN <<>>
  ELSE InsertByDate(SortByDateDesc(SubSeq(q, 1, Len(q) - 1)), q[Len(q)])

\* getSavingsStats(): the values of the last render, and the state array,
\* which savingsEvents.sort sorts in place; no setState, so no render and
\* no save
GetSavingsStats ==
  /\ provider = "savings"
  /\ phase = "ready"
  /\ view' = [fn |-> "stats",
              totalSaved |-> derived.totalSavings,
              savingsByCategory |-> derived.savingsByCategory,
              savingsHistory |-> SortByDateDesc(savingsEvents.v),
              estimatedTimeSaved |-> derived.estimatedTimeSaved]
  /\ savingsEvents' = JArr(SortByDateDesc(savingsEvents.v))
  /\ UNCHANGED derived
  /\ UNCHANGED <<provider, phase, pending, familyMembers, savingsStored,
                 familyStored, now, storage, exported, exportedFrom, rt, ops,
                 loadedItem, lastOp>>
  /\ UNCHANGED httpVars

\* the month of renewalDate after renewalDate.setMonth(getMonth() + 1):
\* month 12 is January of the next year, and a day the month does not have
\* falls into the month after it
RenewalMonth(d) ==
  IF d.month + 1 = 12 THEN 0
  ELSE IF d.day > d.nextLength THEN d.month + 2
  ELSE d.month + 1
\* renewalDate.getMonth() === new Date().getMonth() + 1
RenewalDue(d) == RenewalMonth(d) = d.month + 1

\* deductiblePercent >= 80 && deductiblePercent < 100, where
\* deductiblePercent = deductibleMet / (annual_deductible_individual || 1) * 100
NearDeductible(policy) ==
  LET den == IF policy.policyData.annual_deductible_individual = 0 THEN One
             ELSE policy.policyData.annual_deductible_individual
      num == policy.deductibleMet * 100
  IN IF den > 0 THEN num >= 80 * den /\ num < 100 * den
     ELSE num <= 80 * den /\ num > 100 * den

\* the actions pushed for one policy of a member (descriptions left out)
PolicyActions(member, policy, d) ==
  (IF RenewalDue(d)
     THEN <<[memberId |-> member.id, memberName |-> member.name,
             actionType |-> "renewal", priority |-> "high",
             deadline |-> RenewalMonth(d)]>>
     ELSE <<>>)
  \o
  (IF NearDeductible(policy)
     THEN <<[memberId |-> member.id, memberName |-> member.name,
             actionType |-> "bill_review", priority |-> "medium"]>>
     ELSE <<>>)

\* familyMembers.forEach(member => member.policies.forEach(policy => ...))
RECURSIVE MemberActions(_, _, _)
MemberActions(member, ps, d) ==
  IF ps = <<>> THEN <<>>
  ELSE PolicyActions(member, Head(ps), d) \o MemberActions(member, Tail(ps), d)
RECURSIVE PushedActions(_, _)
PushedActions(q, d) ==
  IF q = <<>> THEN <<>>
  ELSE MemberActions(Head(q), Head(q).policies, d) \o PushedActions(Tail(q), d)

\* const priorityOrder = { high: 3, medium: 2, low: 1 }
PriorityOrderMut(p) == CASE p = "high" -> 1 [] p = "medium" -> 2 [] p = "low" -> 3
PriorityOrder(p) == CASE p = "high" -> 3 [] p = "medium" -> 2 [] p = "low" -> 1

\* actions.sort((a, b) => priorityOrder[b.priority] - priorityOrder[a.priority])
RECURSIVE InsertByPriority(_, _)
InsertByPriority(sorted, a) ==
  IF sorted = <<>> THEN <<a>>
  ELSE IF PriorityOrder(Head(sorted).priority) >= PriorityOrder(a.priority)
    THEN <<Head(sorted)>> \o InsertByPriority(Tail(sorted), a)
    ELSE <<a>> \o sorted
RECURSIVE SortByPriority(_)
SortByPriority(as) ==
  IF as = <<>> THEN <<>>
  ELSE InsertByPriority(SortByPriority(SubSeq(as, 1, Len(as) - 1)), as[Len(as)])

\* getPendingActions() called on the day d
GetPendingActions ==
  /\ provider = "family"
  /\ phase = "ready"
  /\ \E d \in Dates :
       view' = [fn |-> "pendingActions", today |-> d,
                actions |-> SortByPriority(PushedActions(familyMembers.v, d))]
  /\ UNCHANGED <<derived, storeVars>>
  /\ UNCHANGED httpVars

\* getFamilySavings(): sum of (policy_strength_score || 0) * 10
RECURSIVE PolicyScores(_)
PolicyScores(ps) ==
  IF ps = <<>> THEN 0
  ELSE Plus(PolicyScores(SubSeq(ps, 1, Len(ps) - 1)),
            ps[Len(ps)].policyData.policy_strength_score * 10)
RECURSIVE FamilySavings(_)
FamilySavings(q) ==
  IF q = <<>> THEN 0
  ELSE Plus(FamilySavings(SubSeq(q, 1, Len(q) - 1)),
            PolicyScores(q[Len(q)].policies))

GetFamilySavings ==
  /\ provider = "family"
  /\ phase = "ready"
  /\ view' = [fn |-> "familySavings", total |-> FamilySavings(familyMembers.v)]
  /\ UNCHANGED <<derived, storeVars>>
  /\ UNCHANGED httpVars

\* the sequences of at most n elements of a set
RECURSIVE SeqsUpTo(_, _)
SeqsUpTo(S, n) ==
  IF n = 0 THEN {<<>>}
  ELSE LET shorter == SeqsUpTo(S, n - 1)
       IN shorter \cup
          {Append(q, x) : q \in {r \in shorter : Len(r) = n - 1},
                          x \in S}

\* a provider mounted over a persisted collection, before any view is called
ViewsInit ==
  /\ HttpInit
  /\ phase = "ready"
  /\ pending = NoUpdate
  /\ now = SessionStart
  /\ storage = "ok"
  /\ exported = NoItem
  /\ exportedFrom = JArr(<<>>)
  /\ rt = "none"
  /\ ops = 0
  /\ lastOp = NoOp
  /\ view = NoView
  /\ \/ /\ provider = "savings"
        /\ \E q \in SeqsUpTo(ViewEvents, MaxEvents) :
             /\ UniqueIds(q)
             /\ savingsEvents = JArr(q)
             /\ savingsStored = JSONstringify(JArr(q))
             /\ derived = Derived(q)
        /\ loadedItem = savingsStored
        /\ familyMembers = JArr(<<>>)
        /\ familyStored = NoItem
     \/ /\ provider = "family"
        /\ \E q \in SeqsUpTo(ViewMembers, MaxEvents) :
             /\ UniqueIds(q)
             /\ familyMembers = JArr(q)
             /\ familyStored = FamilyItem(JArr(q))
        /\ derived = NoView
        /\ loadedItem = familyStored
        /\ savingsEvents = JArr(<<>>)
        /\ savingsStored = NoItem

ViewsNext ==
  \/ GetSavingsStats
  \/ GetPendingActions
  \/ GetFamilySavings

SpecViews == ViewsInit /\ [][ViewsNext]_vars

(* ------------------------ properties of the stores --------------------- *)
\* the collection of the mounted provider
Coll == IF provider = "savings" THEN savingsEvents ELSE familyMembers
\* what the mounted provider has persisted
Stored == IF provider = "savings" THEN savingsStored ELSE familyStored
\* the step is a store operation of this kind
Did(kind) == ops' = ops + 1 /\ lastOp'.op = kind

\* C11: every add (addSavingsEvent, addMember) makes the collection exactly
\* one longer, and the id of the new entity differs from every id already
\* in the collection, also when two adds read the same clock value.
C11_AddAppendsFreshId ==
  [][Did("add") =>
       /\ Len(Coll'.v) = Len(Coll.v) + 1
       /\ lastOp'.id \notin IdsOf(Coll.v)]_vars

\* C12: in every reachable state of a mounted store the ids of the
\* collection are pairwise distinct.
C12_IdsUnique ==
  (phase = "ready" /\ IsArray(Coll)) => UniqueIds(Coll.v)

\* a property read returns undefined: the property is missing, or present
\* with the value undefined
ReadsUndefined(e, f) ==
  f \notin DOMAIN e \/ (f = "dateOfBirth" /\ e[f] = Undefined)
\* every property read of the two entities returns the same value
SameEntity(a, b) ==
  \A f \in (DOMAIN a) \cup (DOMAIN b) :
    IF ReadsUndefined(a, f) \/ ReadsUndefined(b, f)
      THEN ReadsUndefined(a, f) /\ ReadsUndefined(b, f)
      ELSE a[f] = b[f]
\* two collections hold the same entities in the same order
SameCollection(x, y) ==
  /\ IsArray(x) /\ IsArray(y)
  /\ Len(x.v) = Len(y.v)
  /\ \A i \in 1 .. Len(x.v) : SameEntity(x.v[i], y.v[i])

CollField == IF provider = "savings" THEN "savingsEvents" ELSE "familyMembers"
\* a string that is JSON but carries no array in the collection field
WellFormedWithoutArray(data) ==
  /\ ~ParseThrows(data)
  /\ ~IsArray(Prop(JSONparse(data), CollField))

\* C14: an import of well-formed JSON whose collection field is missing or
\* is not an array leaves the collection unchanged and reports an error.
C14_ShapelessImportRejected ==
  [][(Did("import") /\ WellFormedWithoutArray(lastOp'.payload)) =>
       /\ Coll' = Coll
       /\ lastOp'.error # ""]_vars

\* C15: an import of a string that is not JSON raises the error
\* 'Invalid savings data format' (Savings) or 'Invalid family data format'
\* (Family) and leaves the collection and the persisted value unchanged.
C15_UnparseableImportRaises ==
  [][(Did("import") /\ ParseThrows(lastOp'.payload)) =>
       /\ lastOp'.error = IF provider = "savings"
                            THEN "Invalid savings data format"
                            ELSE "Invalid family data format"
       /\ Coll' = Coll
       /\ Stored' = Stored]_vars

\* an unparseable import was refused over a non-empty persisted collection
C15_Witness ==
  /\ lastOp.op = "import"
  /\ lastOp.payload.k = "garbage"
  /\ lastOp.error = "Invalid savings data format"
  /\ Len(Coll.v) = 2
  /\ Stored.k = "json"

\* the enumerated fields of the entities of a collection
EnumsInRange(q) ==
  \A i \in 1 .. Len(q) :
    /\ "category" \in DOMAIN q[i] => q[i].category \in Categories
    /\ "relationship" \in DOMAIN q[i] => q[i].relationship \in Relationships
    /\ "policies" \in DOMAIN q[i] =>
         \A k \in 1 .. Len(q[i].policies) :
           q[i].policies[k].memberType \in MemberTypes

\* C16: in every reachable state of a mounted store, category, relationship
\* and memberType of every entity are in their enumerated sets.
C16_EnumsInRange ==
  (phase = "ready" /\ IsArray(Coll)) => EnumsInRange(Coll.v)

\* the amounts of the entities of a collection
AmountsNonNegative(q) ==
  \A i \in 1 .. Len(q) :
    /\ "amountSaved" \in DOMAIN q[i] => q[i].amountSaved >= 0
    /\ "policies" \in DOMAIN q[i] =>
         \A k \in 1 .. Len(q[i].policies) :
           /\ q[i].policies[k].deductibleMet >= 0
           /\ q[i].policies[k].outOfPocketMet >= 0

\* C17: after any add, update, updateMemberPolicy or import, amountSaved,
\* deductibleMet and outOfPocketMet of every entity are >= 0.
C17_AmountsNonNegative ==
  (phase = "ready" /\ IsArray(Coll)
     /\ lastOp.op \in {"add", "update", "updatePolicy", "import"})
    => AmountsNonNegative(Coll.v)

\* the entity is the old one with the properties of the partial written over
Patched(new, old, data) ==
  /\ DOMAIN new = (DOMAIN old) \cup (DOMAIN data)
  /\ \A f \in DOMAIN new : new[f] = IF f \in DOMAIN data THEN data[f] ELSE old[f]
\* the entities other than those with this id are the same, at the same place
OthersUntouched(id) ==
  /\ Len(Coll'.v) = Len(Coll.v)
  /\ \A i \in 1 .. Len(Coll.v) : Coll.v[i].id # id => Coll'.v[i] = Coll.v[i]
\* the entities that do not have this id, in their order
Without(q, id) == SelectSeq(q, LAMBDA e : e.id # id)

\* C18: update(id, partial) changes only the entity whose id matches, and
\* only by the partial; remove(id) removes only that entity; the other
\* entities and their order are unchanged; an id that is absent leaves the
\* collection unchanged and raises no error.
C18_UpdateRemoveOnlyMatching ==
  [][/\ Did("update") =>
          /\ OthersUntouched(lastOp'.id)
          /\ \A i \in 1 .. Len(Coll.v) :
               Coll.v[i].id = lastOp'.id =>
                 Patched(Coll'.v[i], Coll.v[i], lastOp'.data)
     /\ Did("remove") => Coll'.v = Without(Coll.v, lastOp'.id)
     /\ (Did("addPolicy") \/ Did("updatePolicy") \/ Did("removePolicy")) =>
          OthersUntouched(lastOp'.id)
     /\ ((Did("update") \/ Did("remove")) /\ lastOp'.id \notin IdsOf(Coll.v)) =>
          (Coll' = Coll /\ lastOp'.error = "")]_vars

\* remove("1") took the first of two entities and left the second
C18_Witness ==
  /\ lastOp.op = "remove"
  /\ lastOp.id = "1"
  /\ IsArray(Coll)
  /\ Len(Coll.v) = 1
  /\ Coll.v[1].id = "2"

\* what a load of the persisted value would hand to setState
ReadBack ==
  IF provider = "savings" THEN SavingsLoaded(Stored) ELSE FamilyLoaded(Stored)
\* the operations that call setState
Mutations ==
  {"add", "update", "remove", "clear", "addPolicy", "updatePolicy",
   "removePolicy"}
\* the last operation changed the state and its save effect has run
Mutated ==
  /\ phase = "ready"
  /\ \/ lastOp.op \in Mutations
     \/ lastOp.op = "import" /\ ~WellFormedWithoutArray(lastOp.payload)
                             /\ lastOp.error = ""

\* C19: after every mutation and its save step the persisted value equals
\* the in-memory collection.
C19_WriteThrough ==
  Mutated => SameCollection(ReadBack, Coll)

\* C19, amended: the same, in a session in which localStorage accepts the
\* writes.
C19_WriteThroughWhenStorageAccepts ==
  (Mutated /\ storage = "ok") => SameCollection(ReadBack, Coll)

\* an add over a loaded collection has been saved
C19_Witness ==
  /\ storage = "ok"
  /\ phase = "ready"
  /\ lastOp.op = "add"
  /\ Len(Coll.v) = 3
  /\ Stored.k = "json"

\* the persisted value the load effect read was absent, unparseable, or
\* parseable without the collection in the shape the provider persists
AbsentOrCorrupt(item) ==
  \/ item.k = "null"
  \/ ParseThrows(item)
  \/ ~IsArray(IF provider = "savings" THEN JSONparse(item)
              ELSE Prop(JSONparse(item), "familyMembers"))
\* the mount is over, one way or the other, and no operation has run
Initialized == phase \in {"ready", "crashed"} /\ ops = 0

\* C20: when the persisted value is absent or corrupt at initialization
\* (unparseable, or parseable but of the wrong shape), the in-memory
\* collection is the empty array and the initialization does not crash.
C20_CorruptLoadGivesEmpty ==
  (Initialized /\ AbsentOrCorrupt(loadedItem)) =>
    (phase = "ready" /\ IsArray(Coll) /\ Coll.v = <<>>)

\* C21: a failing storage read or write never throws to the caller of a
\* store operation: when the write fails the mutation still takes effect in
\* the in-memory collection, and when the read fails the store starts with
\* the empty collection and keeps accepting operations.
C21_StorageFailureSwallowed ==
  /\ []((storage = "blocked" /\ Initialized) =>
          (phase = "ready" /\ IsArray(Coll) /\ Coll.v = <<>>))
  /\ []((storage # "ok" /\ lastOp.error # "") =>
          (lastOp.op = "import" /\ (ParseThrows(lastOp.payload)
                                    \/ ReadThrows(JSONparse(lastOp.payload)))))
  /\ [][storage # "ok" =>
          /\ Did("add") =>
               /\ Len(Coll'.v) = Len(Coll.v) + 1
               /\ Coll'.v[Len(Coll'.v)].id = lastOp'.id
          /\ Did("remove") => Coll'.v = Without(Coll.v, lastOp'.id)
          /\ Did("clear") => Coll'.v = <<>>
          /\ (Did("import") /\ ~WellFormedWithoutArray(lastOp'.payload)
                /\ lastOp'.error = "") =>
               Coll' = Prop(JSONparse(lastOp'.payload), CollField)
          /\ ops' = ops + 1 => phase' = "ready"]_vars

\* the read failed, the store started empty, and two adds whose writes
\* failed are in the collection while nothing is persisted
C21_Witness ==
  /\ storage = "blocked"
  /\ phase = "ready"
  /\ lastOp.op = "add"
  /\ lastOp.error = ""
  /\ Len(Coll.v) = 2
  /\ Stored.k = "null"

(* ------------------------ properties of the views ---------------------- *)
\* the amounts of the events of a category, in the order of the collection
AmountsOf(q, c) ==
  LET of == SelectSeq(q, LAMBDA e : e.category = c)
  IN [i \in 1 .. Len(of) |-> of[i].amountSaved]
AllAmounts(q) == [i \in 1 .. Len(q) |-> q[i].amountSaved]
\* the sum of a sequence of numbers, added from left to right as numbers
RECURSIVE SumOf(_)
SumOf(a) ==
  IF a = <<>> THEN 0 ELSE Plus(SumOf(SubSeq(a, 1, Len(a) - 1)), a[Len(a)])
\* the sum of the entries of a table of numbers, added as numbers
RECURSIVE SumOfEntries(_)
SumOfEntries(t) ==
  IF DOMAIN t = {} THEN 0
  ELSE LET c == CHOOSE x \in DOMAIN t : TRUE
       IN Plus(SumOfEntries([d \in (DOMAIN t) \ {c} |-> t[d]]), t[c])
\* the sum of a sequence of integers, exact
RECURSIVE ExactSum(_)
ExactSum(a) ==
  IF a = <<>> THEN 0 ELSE ExactSum(SubSeq(a, 1, Len(a) - 1)) + a[Len(a)]
\* no addition over these amounts needs rounding
SumsExact(q) == ExactSum(AllAmounts(q)) < Pow2(SignificandBits)
\* the stats returned are those of this collection
StatsOf(q) ==
  /\ view.totalSaved = SumOf(AllAmounts(q))
  /\ DOMAIN view.savingsByCategory = {q[i].category : i \in 1 .. Len(q)}
  /\ \A c \in DOMAIN view.savingsByCategory :
       view.savingsByCategory[c] = SumOf(AmountsOf(q, c))

BillReviews(id) ==
  {n \in 1 .. Len(view.actions) :
     /\ view.actions[n].memberId = id
     /\ view.actions[n].actionType = "bill_review"
     /\ view.actions[n].priority = "medium"}
\* deductibleMet is at least 80% and below 100% of the annual deductible
InBand(policy) ==
  /\ 100 * policy.deductibleMet
       >= 80 * policy.policyData.annual_deductible_individual
  /\ policy.deductibleMet < policy.policyData.annual_deductible_individual
\* the same, of the number 1 when the annual deductible is 0
InBandOrOfOne(policy) ==
  IF policy.policyData.annual_deductible_individual = 0
    THEN 100 * policy.deductibleMet >= 80 * One /\ policy.deductibleMet < One
    ELSE InBand(policy)
\* member i has expected[i] bill_review actions of priority medium, and
\* there is no bill_review action of another priority
BillReviewsAre(expected) ==
  /\ \A i \in 1 .. Len(familyMembers.v) :
       Cardinality(BillReviews(familyMembers.v[i].id)) = expected[i]
  /\ \A n \in 1 .. Len(view.actions) :
       view.actions[n].actionType = "bill_review" =>
         view.actions[n].priority = "medium"

\* C23: getPendingActions contains a bill_review action of priority medium
\* for a member's policy exactly when deductibleMet is at least 80% and
\* below 100% of annual_deductible_individual.
C23_BillReviewBand ==
  view.fn = "pendingActions" =>
    BillReviewsAre([i \in 1 .. Len(familyMembers.v) |->
      Cardinality({k \in 1 .. Len(familyMembers.v[i].policies) :
                     InBand(familyMembers.v[i].policies[k])})])

\* the band is the claimed one when annual_deductible_individual is not 0;
\* when it is 0 the percentage is taken of 1
BillReviewBandOrOfOne ==
  view.fn = "pendingActions" =>
    BillReviewsAre([i \in 1 .. Len(familyMembers.v) |->
      Cardinality({k \in 1 .. Len(familyMembers.v[i].policies) :
                     InBandOrOfOne(familyMembers.v[i].policies[k])})])

\* 450/500 and 400/500 gave a bill_review, 500/500 and 399/500 did not
BillReviewBandReached ==
  /\ view.fn = "pendingActions"
  /\ familyMembers.v = <<M2, M3>>
  /\ Cardinality(BillReviews("2")) = 1
  /\ Cardinality(BillReviews("3")) = 1

\* priority p is strictly lower than priority q
LowerPriority(p, q) ==
  \/ p = "medium" /\ q = "high"
  \/ p = "low" /\ q \in {"high", "medium"}
PrioritiesOf(as) == [n \in 1 .. Len(as) |-> as[n].priority]

\* C26: the list returned by getPendingActions is ordered high before
\* medium before low: no action is preceded by one of strictly lower
\* priority.
C26_ActionsOrderedByPriority ==
  view.fn = "pendingActions" =>
    \A i, j \in 1 .. Len(view.actions) :
      i < j => ~LowerPriority(view.actions[i].priority,
                              view.actions[j].priority)

\* the actions were pushed as high, medium, high and returned ordered
C26_Witness ==
  /\ view.fn = "pendingActions"
  /\ familyMembers.v = <<M2, M1>>
  /\ PrioritiesOf(PushedActions(familyMembers.v, view.today))
       = <<"high", "medium", "high">>
  /\ PrioritiesOf(view.actions) = <<"high", "high", "medium">>

\* member, action type and priority of each action of a list
Essentials(as) ==
  [n \in 1 .. Len(as) |->
     <<as[n].memberId, as[n].actionType, as[n].priority>>]

\* C27: two calls of getPendingActions on equal collections return equal
\* action lists (same members, action types and priorities) whatever the
\* current date is.
C27_PendingActionsIgnoreDate ==
  [][(view.fn = "pendingActions" /\ view'.fn = "pendingActions"
        /\ familyMembers' = familyMembers) =>
       Essentials(view'.actions) = Essentials(view.actions)]_vars

\* C29: a call of getSavingsStats, getPendingActions or getFamilySavings
\* leaves the in-memory collection, the order of its elements included, and
\* the persisted value unchanged.
C29_ViewsLeaveStoreUnchanged ==
  [][view'.fn \in {"stats", "pendingActions", "familySavings"} =>
       (Coll' = Coll /\ Stored' = Stored)]_vars


(* ---------------------- properties of the client, II ------------------- *)
\* C24: while an upload is under way (the POST whose body is the FormData),
\* the init given to fetch sets no Content-Type, so that the browser can
\* supply the multipart one; in particular it is never the
\* 'application/json' default of requestWithTimeout().
C24_UploadSetsNoContentType ==
  (caller = "request" /\ body = "formData") =>
    /\ method = "POST"
    /\ contentType = "none"

\* the attempts of the call that are open: started and not yet settled
OpenAttempts ==
  attempts - Len(errs) - (IF pc = "done" /\ result = OkOutcome THEN 1 ELSE 0)

\* C25: the attempts of one request() call are strictly sequential. At most
\* one attempt is open at any time, and exactly one while the call is
\* fetching or reading a body; a further attempt starts only from the wait
\* that followed the failure of the previous one, when every earlier
\* attempt has settled and its backoff was scheduled; and the outcome of
\* the call is that of its latest attempt alone: its value, or the error
\* that attempt failed with.
C25_AttemptsSequential ==
  /\ [](/\ OpenAttempts \in {0, 1}
        /\ OpenAttempts = 1 <=> pc \in {"fetching", "errbody", "body"}
        /\ netPending => OpenAttempts = 1
        /\ timerArmed => OpenAttempts = 1
        /\ attempts = IF pc = "idle" THEN 0 ELSE attempt + 1)
  /\ [][(attempts' = attempts + 1 /\ attempts >= 1) =>
         /\ pc = "sleeping"
         /\ ~netPending /\ ~timerArmed
         /\ Len(errs) = attempts
         /\ Len(delays) = attempts
         /\ ~NonRetryable(errs[attempts])]_vars
  /\ [](pc = "done" =>
         \/ result = OkOutcome /\ Len(errs) = attempts - 1
         \/ Len(errs) = attempts /\ result = errs[attempts])

C25_Witness ==
  /\ pc = "done"
  /\ attempts = 3
  /\ Len(delays) = 2
  /\ errs = <<APIError(500), RawError("SyntaxError"), APIError(503)>>
  /\ result = APIError(503)

(* ---------------------- properties of the stores, II ------------------- *)
\* what the load effect of the mounted provider makes of a persisted item
LoadedFrom(item) ==
  IF provider = "savings" THEN SavingsLoaded(item) ELSE FamilyLoaded(item)
\* the item holds a non-empty collection
HoldsData(item) ==
  LoadedFrom(item).t = "array" /\ Len(LoadedFrom(item).v) > 0
\* the step belongs to the initialization: no operation has run or runs
InitStep == ops = 0 /\ ops' = 0

\* C28: with a storage that reads and writes, the initialization of a store
\* (its mount effects, run once or twice) never replaces persisted
\* non-empty data by another value, the empty initial collection included,
\* and once it is over the in-memory collection is the one that was
\* persisted before.
C28_MountKeepsPersisted ==
  /\ [][(storage = "ok" /\ InitStep /\ HoldsData(Stored)) =>
         Stored' = Stored]_vars
  /\ []((storage = "ok" /\ Initialized /\ HoldsData(loadedItem)) =>
         /\ phase = "ready"
         /\ Coll = LoadedFrom(loadedItem)
         /\ Stored = loadedItem)

(* --------------------- properties of the client, III ------------------- *)
\* C30: when every fetch responds, rejects or is aborted by its timeout,
\* every call of request() settles, whatever the attempts end with
\* (APIError or not), and it never makes more than retries + 1 attempts.
C30_RequestSettles ==
  /\ [](attempts <= retries + 1)
  /\ (pc # "idle") ~> (pc = "done")

====
